---- MODULE Spec2Model ----
(***************************************************************************)
(* taxadb, class TaxID (src/taxadb/taxid.py): lookups against the table    *)
(* `taxa` (ncbi_taxid primary key, tax_name, parent_taxid).                *)
(*                                                                         *)
(* The table is read-only for this class.  A state of the model is the     *)
(* table plus the activation record of the one call in progress: which     *)
(* method, its arguments, the locals of its lineage loop, and what the     *)
(* caller has observed (a returned value, None, or an escaped exception).  *)
(***************************************************************************)
EXTENDS Integers, Sequences, FiniteSets, TLC

\* ------------------------------------------------------------------------
\* Bounds of the model
\* ------------------------------------------------------------------------
\* taxids are 1..MaxTaxid
MaxTaxid == 3
\* similarity scores the database reports are 0..MaxSim
MaxSim == 2
\* explicit `limit` arguments of tax_id_fuzzy are 0..MaxLimit
MaxLimit == 2

TaxIds == 1..MaxTaxid

\* tax_name values stored in the table
Names == {"root", "Eukaryota", "Homo sapiens"}

\* names a caller may ask for: the stored ones and one that is never stored
QueryNames == Names \cup {"Pan troglodytes"}

\* the loop of a lineage walk is followed for at most WalkCap iterations; a
\* walk that returns visits each row at most once, so it needs at most
\* MaxTaxid iterations and the cap cuts only walks that never return
WalkCap == MaxTaxid + 1

\* ------------------------------------------------------------------------
\* The table
\* ------------------------------------------------------------------------
Rows == [tax_name : Names, parent_taxid : TaxIds]

\* every content of the table: ncbi_taxid is the primary key, parent_taxid is
\* a plain integer column (no foreign key), tax_name is not unique
Stores == UNION {[S -> Rows] : S \in SUBSET TaxIds}

\* what a call hands to its caller
None == [tag |-> "None"]
Return(v) == [tag |-> "value", value |-> v]
Raise(e) == [tag |-> "raise", exc |-> e]
\* the call never comes back (used by the closed form of the walks only)
Diverges == [tag |-> "diverges"]
Pending == [tag |-> "pending"]

\* Taxa.get(Taxa.ncbi_taxid == t): the row exists or Taxa.DoesNotExist
RowExists(st, t) == t \in DOMAIN st

\* variant: the handler is missing and the exception reaches the caller
OnDoesNotExist_unhandled == Raise("DoesNotExist")

\* `except Taxa.DoesNotExist: return None`
OnDoesNotExist == None

\* list.reverse()
RECURSIVE Reverse(_)
Reverse(s) == IF s = <<>> THEN <<>> ELSE Append(Reverse(Tail(s)), Head(s))

\* ------------------------------------------------------------------------
\* sci_name, tax_id
\* ------------------------------------------------------------------------
sci_name(st, taxid) ==
    IF RowExists(st, taxid) THEN Return(st[taxid].tax_name) ELSE OnDoesNotExist

\* variant: the wrong column of the row found is returned
tax_id_parent(st, name) ==
    IF \E t \in DOMAIN st : st[t].tax_name = name
    THEN {Return(st[t].parent_taxid) : t \in {u \in DOMAIN st : st[u].tax_name = name}}
    ELSE {OnDoesNotExist}

\* Taxa.get(Taxa.tax_name == n): some row with that name (the query has no
\* ORDER BY, so with several such rows any of them may come back)
tax_id(st, name) ==
    IF \E t \in DOMAIN st : st[t].tax_name = name
    THEN {Return(t) : t \in {u \in DOMAIN st : st[u].tax_name = name}}
    ELSE {OnDoesNotExist}

\* ------------------------------------------------------------------------
\* lineage_id
\* ------------------------------------------------------------------------
\* lines 97-100: the locals before the loop (the three gets hit the same row)
lineage_id_enter(st, taxid) ==
    [lineage_list |-> <<>>,
     current_lineage |-> st[taxid].tax_name,
     current_lineage_id |-> taxid,
     parent |-> st[taxid].parent_taxid]

\* variant: the sentinel is misspelt and the loop does not stop at the root
lineage_id_cond_misspelt(f) == f.current_lineage # "Root"

\* line 101
lineage_id_cond(f) == f.current_lineage # "root"

\* variant: the taxid appended is the one about to be fetched
lineage_id_append_parent(f) ==
    [f EXCEPT !.lineage_list = Append(f.lineage_list, f.parent)]

\* line 102: the append happens before the get of line 103 can raise
lineage_id_append(f) ==
    [f EXCEPT !.lineage_list = Append(f.lineage_list, f.current_lineage_id)]

\* lines 103-107, new_query being the row of f.parent
lineage_id_advance(st, f) ==
    [f EXCEPT !.current_lineage = st[f.parent].tax_name,
              !.current_lineage_id = f.parent,
              !.parent = st[f.parent].parent_taxid]

\* variant: the test of `reverse` is inverted
lineage_id_exit_inverted(f, reverse) ==
    Return(IF reverse THEN f.lineage_list ELSE Reverse(f.lineage_list))

\* lines 108-110
lineage_id_exit(f, reverse) ==
    Return(IF reverse THEN Reverse(f.lineage_list) ELSE f.lineage_list)

\* lines 96-112 as one function of the table: the loop unrolled.  A walk that
\* is still inside the loop after WalkCap iterations has come back to a row it
\* left before, and the loop never ends.
RECURSIVE lineage_id_run(_, _, _, _)
lineage_id_run(st, f, reverse, fuel) ==
    IF ~lineage_id_cond(f) THEN lineage_id_exit(f, reverse)
    ELSE IF fuel = 0 THEN Diverges
    ELSE IF RowExists(st, f.parent)
         THEN lineage_id_run(st, lineage_id_advance(st, lineage_id_append(f)),
                             reverse, fuel - 1)
         ELSE OnDoesNotExist

lineage_id(st, taxid, reverse) ==
    IF RowExists(st, taxid)
    THEN lineage_id_run(st, lineage_id_enter(st, taxid), reverse, WalkCap)
    ELSE OnDoesNotExist

\* ------------------------------------------------------------------------
\* lineage_name
\* ------------------------------------------------------------------------
\* lines 130-132
lineage_name_enter(st, taxid) ==
    [lineage_list |-> <<>>,
     current_lineage |-> st[taxid].tax_name,
     parent |-> st[taxid].parent_taxid]

\* line 133
lineage_name_cond(f) == f.current_lineage # "root"

\* line 134
lineage_name_append(f) ==
    [f EXCEPT !.lineage_list = Append(f.lineage_list, f.current_lineage)]

\* variant: the parent pointer is not moved on
lineage_name_advance_stale(st, f) ==
    [f EXCEPT !.current_lineage = st[f.parent].tax_name]

\* lines 135-138
lineage_name_advance(st, f) ==
    [f EXCEPT !.current_lineage = st[f.parent].tax_name,
              !.parent = st[f.parent].parent_taxid]

\* variant: `reverse` is ignored
lineage_name_exit_ignored(f, reverse) == Return(f.lineage_list)

\* lines 139-141
lineage_name_exit(f, reverse) ==
    Return(IF reverse THEN Reverse(f.lineage_list) ELSE f.lineage_list)

\* lines 129-143 as one function of the table
RECURSIVE lineage_name_run(_, _, _, _)
lineage_name_run(st, f, reverse, fuel) ==
    IF ~lineage_name_cond(f) THEN lineage_name_exit(f, reverse)
    ELSE IF fuel = 0 THEN Diverges
    ELSE IF RowExists(st, f.parent)
         THEN lineage_name_run(st, lineage_name_advance(st, lineage_name_append(f)),
                               reverse, fuel - 1)
         ELSE OnDoesNotExist

lineage_name(st, taxid, reverse) ==
    IF RowExists(st, taxid)
    THEN lineage_name_run(st, lineage_name_enter(st, taxid), reverse, WalkCap)
    ELSE OnDoesNotExist

\* ------------------------------------------------------------------------
\* tax_id_fuzzy
\* ------------------------------------------------------------------------
\* `limit` defaults to 10
DefaultLimit == 10

Limits == (0..MaxLimit) \cup {DefaultLimit}

\* What pg_trgm computes for one query string: similarity(tax_name, sci_name)
\* for every name, in units of 1/MaxSim, and the threshold of the operator %.
\* Both are functions of strings only; a string equal to the query string has
\* the largest similarity.
Trgm(name) ==
    {g \in [similarity : [Names -> 0..MaxSim], threshold : 0..MaxSim] :
        name \in Names => g.similarity[name] = MaxSim}

NoTrgm == [threshold |-> 0]

\* WHERE taxa.tax_name % sci_name
Matches(st, g, t) == g.similarity[st[t].tax_name] >= g.threshold

\* SELECT taxa.*, similarity(...): the row as the caller sees it (the
\* levenshtein column is projected as well and takes no part in the query)
FuzzyRow(st, g, t) ==
    [ncbi_taxid |-> t,
     tax_name |-> st[t].tax_name,
     parent_taxid |-> st[t].parent_taxid,
     similarity |-> g.similarity[st[t].tax_name]]

\* ORDER BY similarity DESC: every arrangement of the matching rows in which
\* the similarity never increases (rows that tie come in any order)
Ordered(st, g) ==
    LET M == {t \in DOMAIN st : Matches(st, g, t)}
        n == Cardinality(M)
    IN {o \in [1..n -> M] :
          /\ \A i, j \in 1..n : i # j => o[i] # o[j]
          /\ \A i \in 1..n, j \in 1..n :
                i < j => g.similarity[st[o[i]].tax_name] >= g.similarity[st[o[j]].tax_name]}

\* variant: the LIMIT clause is missing
LimitRows_all(o, limit) == o

\* LIMIT limit
LimitRows(o, limit) == SubSeq(o, 1, IF Len(o) < limit THEN Len(o) ELSE limit)

\* lines 70-76: list(Taxa.raw(...)); a raw query never raises DoesNotExist
tax_id_fuzzy(st, g, limit) ==
    {Return([i \in 1..Len(LimitRows(o, limit)) |-> FuzzyRow(st, g, o[i])]) :
        o \in Ordered(st, g)}

\* ------------------------------------------------------------------------
\* The calls, one loop iteration at a time
\* ------------------------------------------------------------------------
VARIABLES
    store,      \* the table taxa
    pc,         \* "idle" | "loop" (inside a lineage walk) | "done"
    op,         \* the method called
    arg,        \* its first argument (a taxid or a name)
    reverse,    \* the `reverse` argument of the lineage methods
    frame,      \* the locals of the lineage walk
    limit,      \* the `limit` argument of tax_id_fuzzy
    trgm,       \* what pg_trgm computes for the query string of tax_id_fuzzy
    result      \* what the caller got

vars == <<store, pc, op, arg, reverse, frame, limit, trgm, result>>

NoFrame == [lineage_list |-> <<>>]

Init ==
    /\ store \in Stores
    /\ pc = "idle"
    /\ op = "none"
    /\ arg = 0
    /\ reverse = FALSE
    /\ frame = NoFrame
    /\ limit = 0
    /\ trgm = NoTrgm
    /\ result = Pending

\* The class keeps no state between calls and the table does not change, so a
\* behaviour is one call on one table.
Callable == pc = "idle"

\* sci_name(taxid), lines 35-39
SciName ==
    /\ Callable
    /\ \E taxid \in TaxIds :
         /\ op' = "sci_name"
         /\ arg' = taxid
         /\ result' = sci_name(store, taxid)
    /\ pc' = "done"
    /\ reverse' = FALSE
    /\ frame' = NoFrame
    /\ UNCHANGED <<store, limit, trgm>>

\* tax_id(sci_name), lines 52-56
TaxId ==
    /\ Callable
    /\ \E name \in QueryNames :
         /\ op' = "tax_id"
         /\ arg' = name
         /\ result' \in tax_id(store, name)
    /\ pc' = "done"
    /\ reverse' = FALSE
    /\ frame' = NoFrame
    /\ UNCHANGED <<store, limit, trgm>>

\* lineage_id(taxid, reverse), lines 96-100 and the handler of 111-112
LineageIdCall ==
    /\ Callable
    /\ \E taxid \in TaxIds, rev \in BOOLEAN :
         /\ op' = "lineage_id"
         /\ arg' = taxid
         /\ reverse' = rev
         /\ IF RowExists(store, taxid)
            THEN /\ frame' = lineage_id_enter(store, taxid)
                 /\ pc' = "loop"
                 /\ result' = Pending
            ELSE /\ frame' = NoFrame
                 /\ pc' = "done"
                 /\ result' = OnDoesNotExist
    /\ UNCHANGED <<store, limit, trgm>>

\* variant: a missing parent row ends the walk with the chain found so far
LineageIdLoop_partial ==
    /\ pc = "loop"
    /\ op = "lineage_id"
    /\ lineage_id_cond(frame)
    /\ Len(frame.lineage_list) < WalkCap
    /\ IF RowExists(store, frame.parent)
       THEN /\ frame' = lineage_id_advance(store, lineage_id_append(frame))
            /\ UNCHANGED <<pc, result>>
       ELSE /\ frame' = lineage_id_append(frame)
            /\ pc' = "done"
            /\ result' = Return(frame'.lineage_list)
    /\ UNCHANGED <<store, op, arg, reverse, limit, trgm>>

\* one iteration of the while loop, lines 101-107
LineageIdLoop ==
    /\ pc = "loop"
    /\ op = "lineage_id"
    /\ lineage_id_cond(frame)
    /\ Len(frame.lineage_list) < WalkCap
    /\ IF RowExists(store, frame.parent)
       THEN /\ frame' = lineage_id_advance(store, lineage_id_append(frame))
            /\ UNCHANGED <<pc, result>>
       ELSE /\ frame' = lineage_id_append(frame)
            /\ pc' = "done"
            /\ result' = OnDoesNotExist
    /\ UNCHANGED <<store, op, arg, reverse, limit, trgm>>

\* the loop condition fails, lines 108-110
LineageIdReturn ==
    /\ pc = "loop"
    /\ op = "lineage_id"
    /\ ~lineage_id_cond(frame)
    /\ pc' = "done"
    /\ result' = lineage_id_exit(frame, reverse)
    /\ UNCHANGED <<store, op, arg, reverse, frame, limit, trgm>>

\* lineage_name(taxid, reverse), lines 129-132 and the handler of 142-143
LineageNameCall ==
    /\ Callable
    /\ \E taxid \in TaxIds, rev \in BOOLEAN :
         /\ op' = "lineage_name"
         /\ arg' = taxid
         /\ reverse' = rev
         /\ IF RowExists(store, taxid)
            THEN /\ frame' = lineage_name_enter(store, taxid)
                 /\ pc' = "loop"
                 /\ result' = Pending
            ELSE /\ frame' = NoFrame
                 /\ pc' = "done"
                 /\ result' = OnDoesNotExist
    /\ UNCHANGED <<store, limit, trgm>>

\* one iteration of the while loop, lines 133-138
LineageNameLoop ==
    /\ pc = "loop"
    /\ op = "lineage_name"
    /\ lineage_name_cond(frame)
    /\ Len(frame.lineage_list) < WalkCap
    /\ IF RowExists(store, frame.parent)
       THEN /\ frame' = lineage_name_advance(store, lineage_name_append(frame))
            /\ UNCHANGED <<pc, result>>
       ELSE /\ frame' = lineage_name_append(frame)
            /\ pc' = "done"
            /\ result' = OnDoesNotExist
    /\ UNCHANGED <<store, op, arg, reverse, limit, trgm>>

\* the loop condition fails, lines 139-141
LineageNameReturn ==
    /\ pc = "loop"
    /\ op = "lineage_name"
    /\ ~lineage_name_cond(frame)
    /\ pc' = "done"
    /\ result' = lineage_name_exit(frame, reverse)
    /\ UNCHANGED <<store, op, arg, reverse, frame, limit, trgm>>

\* tax_id_fuzzy(sci_name, limit), lines 70-76
TaxIdFuzzy ==
    /\ Callable
    /\ \E name \in QueryNames, lim \in Limits :
         \E g \in Trgm(name) :
           /\ op' = "tax_id_fuzzy"
           /\ arg' = name
           /\ limit' = lim
           /\ trgm' = g
           /\ result' \in tax_id_fuzzy(store, g, lim)
    /\ pc' = "done"
    /\ reverse' = FALSE
    /\ frame' = NoFrame
    /\ UNCHANGED store

\* the point lookups and the lineage walks
Next ==
    \/ SciName
    \/ TaxId
    \/ LineageIdCall
    \/ LineageIdLoop
    \/ LineageIdReturn
    \/ LineageNameCall
    \/ LineageNameLoop
    \/ LineageNameReturn

Spec == Init /\ [][Next]_vars

\* the walks under the scheduling of a sequential program: a call that can
\* take its next step takes it
FairSpec ==
    /\ Spec
    /\ WF_vars(LineageIdLoop)
    /\ WF_vars(LineageIdReturn)
    /\ WF_vars(LineageNameLoop)
    /\ WF_vars(LineageNameReturn)

\* the fuzzy search reads tax_name only: the tables it is run on differ in
\* their names, every row being its own parent
InitFuzzy ==
    /\ Init
    /\ \A t \in DOMAIN store : store[t].parent_taxid = t

NextFuzzy == TaxIdFuzzy

SpecFuzzy == InitFuzzy /\ [][NextFuzzy]_vars

\* ------------------------------------------------------------------------
\* Vocabulary of the properties
\* ------------------------------------------------------------------------
Done(o) == pc = "done" /\ op = o

Elems(s) == {s[i] : i \in 1..Len(s)}

\* the row reached from x by following parent_taxid n times (0 when a parent
\* pointer on the way has no row)
RECURSIVE Ancestor(_, _, _)
Ancestor(st, x, n) ==
    IF n = 0 THEN x
    ELSE LET a == Ancestor(st, x, n - 1)
         IN IF a \in DOMAIN st THEN st[a].parent_taxid ELSE 0

IsRoot(st, x) == x \in DOMAIN st /\ st[x].tax_name = "root"

\* the parent chain of x reaches the taxon named "root" in exactly k hops
ReachesRootIn(st, x, k) ==
    /\ IsRoot(st, Ancestor(st, x, k))
    /\ \A j \in 0..(k - 1) :
         Ancestor(st, x, j) \in DOMAIN st /\ ~IsRoot(st, Ancestor(st, x, j))

\* the data-model invariant: one taxon is named "root" and the parent chain of
\* every taxon reaches it
WellFormed(st) ==
    /\ Cardinality({x \in DOMAIN st : IsRoot(st, x)}) = 1
    /\ \A x \in DOMAIN st : \E k \in 0..MaxTaxid : ReachesRootIn(st, x, k)

UniqueNames(st) ==
    \A x, y \in DOMAIN st : st[x].tax_name = st[y].tax_name => x = y

\* the table of the concrete scenario
Scenario ==
    (1 :> [tax_name |-> "root", parent_taxid |-> 1]) @@
    (2 :> [tax_name |-> "Eukaryota", parent_taxid |-> 1]) @@
    (3 :> [tax_name |-> "Homo sapiens", parent_taxid |-> 2])

\* s is t back to front
IsReverseOf(s, t) ==
    /\ Len(s) = Len(t)
    /\ \A i \in 1..Len(s) : s[i] = t[Len(t) + 1 - i]

\* ------------------------------------------------------------------------
\* Properties
\* ------------------------------------------------------------------------

\* C1: on a table that satisfies the data-model invariant, when the parent
\* chain of taxid X reaches the taxon named "root" in exactly k hops,
\* lineage_id(X) returns a list of length k that does not hold the root's
\* taxid; for the root itself the list is empty.
C1_LengthIsHops ==
    (Done("lineage_id") /\ WellFormed(store) /\ arg \in DOMAIN store) =>
        \A k \in 0..MaxTaxid :
            ReachesRootIn(store, arg, k) =>
                /\ result.tag = "value"
                /\ Len(result.value) = k
                /\ \A i \in 1..Len(result.value) : ~IsRoot(store, result.value[i])
                /\ (k = 0 => result.value = <<>>)

C1_Witness ==
    /\ Done("lineage_id") /\ WellFormed(store) /\ arg \in DOMAIN store
    /\ ReachesRootIn(store, arg, 2)
    /\ result.tag = "value" /\ Len(result.value) = 2

\* C2 as stated: the lineage holds ancestors only, the starting taxon is
\* never in it and without reverse its first element is the direct parent; on
\* the scenario table lineage_id(3) = [2] with either flag and
\* lineage_name(3) = ["Eukaryota"].
C2_AncestorsOnly ==
    /\ (Done("lineage_id") /\ result.tag = "value") =>
          /\ arg \notin Elems(result.value)
          /\ (~reverse /\ result.value # <<>>) =>
                result.value[1] = store[arg].parent_taxid
    /\ (Done("lineage_id") /\ store = Scenario /\ arg = 3) =>
          result = Return(<<2>>)
    /\ (Done("lineage_name") /\ store = Scenario /\ arg = 3 /\ ~reverse) =>
          result = Return(<<"Eukaryota">>)

\* C2 amended: the lineage of a taxon that is not the root starts with the
\* taxon itself and goes on with its ancestors below the root.  Without
\* reverse the first element is X (its taxid, or its name), and every further
\* taxid is the parent of the one before it; with reverse X comes last.  On
\* the scenario table lineage_id(3) = [3, 2], reversed [2, 3], and
\* lineage_name(3) = ["Homo sapiens", "Eukaryota"].
C2_StartsAtSelf ==
    /\ (Done("lineage_id") /\ result.tag = "value") =>
          LET l == result.value
              n == Len(l)
          IN /\ (l = <<>>) <=> IsRoot(store, arg)
             /\ (~reverse /\ n > 0) =>
                   /\ l[1] = arg
                   /\ \A i \in 1..(n - 1) : l[i + 1] = store[l[i]].parent_taxid
             /\ (reverse /\ n > 0) =>
                   /\ l[n] = arg
                   /\ \A i \in 1..(n - 1) : l[i] = store[l[i + 1]].parent_taxid
    /\ (Done("lineage_name") /\ result.tag = "value") =>
          LET l == result.value
              n == Len(l)
          IN /\ (l = <<>>) <=> IsRoot(store, arg)
             /\ (~reverse /\ n > 0) => l[1] = store[arg].tax_name
             /\ (reverse /\ n > 0) => l[n] = store[arg].tax_name
    /\ (Done("lineage_id") /\ store = Scenario /\ arg = 3) =>
          result = Return(IF reverse THEN <<2, 3>> ELSE <<3, 2>>)
    /\ (Done("lineage_name") /\ store = Scenario /\ arg = 3 /\ ~reverse) =>
          result = Return(<<"Homo sapiens", "Eukaryota">>)

C2_Witness ==
    /\ Done("lineage_id") /\ store = Scenario /\ arg = 3 /\ ~reverse
    /\ result = Return(<<3, 2>>)

\* C3: for a taxid X of the table, what lineage_id(X, reverse) returns is,
\* element by element, the reverse of what lineage_id(X, not reverse) returns
\* (None against None); the same for lineage_name.
C3_ReverseIsMirror ==
    /\ (Done("lineage_id") /\ arg \in DOMAIN store) =>
          LET other == lineage_id(store, arg, ~reverse)
          IN IF result.tag = "value"
             THEN other.tag = "value" /\ IsReverseOf(result.value, other.value)
             ELSE other = result
    /\ (Done("lineage_name") /\ arg \in DOMAIN store) =>
          LET other == lineage_name(store, arg, ~reverse)
          IN IF result.tag = "value"
             THEN other.tag = "value" /\ IsReverseOf(result.value, other.value)
             ELSE other = result

C3_Witness ==
    /\ Done("lineage_name") /\ reverse /\ result.tag = "value"
    /\ Len(result.value) = 2 /\ result.value[1] # result.value[2]

\* C4: for a key that the table does not hold, sci_name, tax_id, lineage_id
\* and lineage_name return None; no exception reaches the caller and the
\* lineage methods do not return an empty list.
C4_AbsentKeyIsNone ==
    /\ (pc = "done" /\ op \in {"sci_name", "lineage_id", "lineage_name"}
           /\ arg \notin DOMAIN store) => result = None
    /\ (Done("tax_id") /\ ~\E t \in DOMAIN store : store[t].tax_name = arg) =>
          result = None

C4_Witness ==
    /\ Done("lineage_name") /\ arg \notin DOMAIN store /\ store # <<>>
    /\ result = None

\* C5: on a table with unique names, tax_id(sci_name(X)) = X for every taxid
\* X of the table.
C5_RoundTrip ==
    (Done("tax_id") /\ UniqueNames(store)) =>
        \A X \in DOMAIN store :
            sci_name(store, X) = Return(arg) => result = Return(X)

C5_Witness ==
    /\ Done("tax_id") /\ UniqueNames(store) /\ Cardinality(DOMAIN store) = MaxTaxid
    /\ sci_name(store, MaxTaxid) = Return(arg) /\ result = Return(MaxTaxid)

\* C6: lineage_name walks as lineage_id does: for every table, taxid and
\* reverse flag both return None, or both return lists of one length in which
\* the i-th name is the stored name of the i-th taxid.
C6_SameWalk ==
    /\ Done("lineage_name") =>
          LET ids == lineage_id(store, arg, reverse)
          IN IF result.tag = "value"
             THEN /\ ids.tag = "value"
                  /\ Len(ids.value) = Len(result.value)
                  /\ \A i \in 1..Len(ids.value) :
                        result.value[i] = store[ids.value[i]].tax_name
             ELSE result = None /\ ids = None
    /\ Done("lineage_id") =>
          LET names == lineage_name(store, arg, reverse)
          IN IF result.tag = "value"
             THEN /\ names.tag = "value"
                  /\ Len(names.value) = Len(result.value)
                  /\ \A i \in 1..Len(names.value) :
                        names.value[i] = store[result.value[i]].tax_name
             ELSE result = None /\ names = None

C6_Witness ==
    /\ Done("lineage_name") /\ result.tag = "value" /\ Len(result.value) = 2
    /\ result.value[1] # result.value[2]
    /\ lineage_id(store, arg, reverse).tag = "value"

\* C7: tax_id_fuzzy(name, limit) returns a list; every row of it is a row of
\* the table whose name passes the similarity threshold against `name`, it has
\* at most `limit` rows and the similarity never increases along it; when no
\* row passes the threshold, or the table is empty, the list is empty.
C7_FuzzyResult ==
    Done("tax_id_fuzzy") =>
        /\ result.tag = "value"
        /\ LET r == result.value
           IN /\ \A i \in 1..Len(r) :
                    /\ r[i].ncbi_taxid \in DOMAIN store
                    /\ r[i].tax_name = store[r[i].ncbi_taxid].tax_name
                    /\ r[i].similarity = trgm.similarity[r[i].tax_name]
                    /\ r[i].similarity >= trgm.threshold
              /\ Len(r) <= limit
              /\ \A i, j \in 1..Len(r) : i < j => r[i].similarity >= r[j].similarity
              /\ (\A t \in DOMAIN store :
                     trgm.similarity[store[t].tax_name] < trgm.threshold) => r = <<>>

C7_Witness ==
    /\ Done("tax_id_fuzzy") /\ result.tag = "value"
    /\ limit = 1 /\ Len(result.value) = 1
    /\ \E t, u \in DOMAIN store :
          /\ ~Matches(store, trgm, t)
          /\ Matches(store, trgm, u)
          /\ trgm.similarity[store[u].tax_name] < result.value[1].similarity

\* C8: when the walk of lineage_id or lineage_name, started at a taxon of the
\* table that is not the root, comes to a parent pointer that has no row, the
\* call returns None: no exception reaches the caller and the chain collected
\* so far is not returned.
C8_MissingParentIsNone ==
    (pc = "done" /\ op \in {"lineage_id", "lineage_name"}
        /\ arg \in DOMAIN store /\ ~IsRoot(store, arg)
        /\ frame.current_lineage # "root" /\ ~RowExists(store, frame.parent)) =>
            result = None

C8_Witness ==
    /\ Done("lineage_id") /\ arg \in DOMAIN store
    /\ frame.current_lineage # "root" /\ ~RowExists(store, frame.parent)
    /\ Len(frame.lineage_list) = 2
    /\ result = None

\* C9: on a table that satisfies the data-model invariant every lineage walk
\* ends, it ends on the row named "root", and no iteration of the loop is run
\* on that row (the parent of the root is never fetched).
C9_WalkEndsAtRoot ==
    /\ (pc = "loop" /\ WellFormed(store)) ~>
          (IF pc = "done" /\ op \in {"lineage_id", "lineage_name"} /\ result.tag = "value"
           THEN frame.current_lineage = "root" ELSE FALSE)
    /\ [][(pc = "loop" /\ WellFormed(store) /\ frame' # frame) =>
             frame.current_lineage # "root"]_vars

C9_Witness ==
    /\ pc = "done" /\ op \in {"lineage_id", "lineage_name"} /\ WellFormed(store)
    /\ result.tag = "value" /\ Len(result.value) = 2
    /\ frame.current_lineage = "root"

\* C10: the walk is bounded.  A walk that ends fetches every row at most
\* once, so a bounded walk never collects more elements than the table has
\* rows, parent pointers that form a cycle included.
C10_WalkBounded ==
    (pc = "loop" /\ op \in {"lineage_id", "lineage_name"}) =>
        Len(frame.lineage_list) <= Cardinality(DOMAIN store)

====
